---- MODULE Spec2Model ----
(***************************************************************************)
(* Document-extraction normalisation pipeline of finance_mcp_project:      *)
(*   utils/nominal_formatter.py  NominalFormatter                          *)
(*   services/ocr_service.py     OCRService._merge_multi_page_results      *)
(*                                                                         *)
(* Python strings are sequences of one-character strings, so that the      *)
(* regular expressions, str methods and float() of the source are          *)
(* computed character by character.                                        *)
(***************************************************************************)
EXTENDS Integers, Sequences, FiniteSets, TLC

VARIABLES
    pc,        \* position of the caller
    nominal,   \* argument of format_nominal_to_international_format
    result,    \* its return value
    again,     \* return value of the call on result
    raised,    \* TRUE once an exception has left a call
    original,         \* the record as it was passed to format_all_nominal_fields
    data_dict,        \* the caller's record object (nested parts are shared)
    formatted_dict,   \* return value of format_all_nominal_fields
    formatted_again,  \* return value of the call on formatted_dict
    results,          \* the page results passed to _merge_multi_page_results
    merged_result,    \* return value of _merge_multi_page_results
    responses,        \* the model's response stream for each page of a document
    steps,            \* the steps of process_multiple_images completed so far
    final_result      \* return value of process_multiple_images

vars == <<pc, nominal, result, again, raised,
          original, data_dict, formatted_dict, formatted_again,
          results, merged_result, responses, steps, final_result>>

(***************************************************************************)
(* Characters and str helpers                                              *)
(***************************************************************************)
DigitChars == <<"0", "1", "2", "3", "4", "5", "6", "7", "8", "9">>

Digit == {DigitChars[i] : i \in 1..10}

IsDigit(c) == c \in Digit

DigitVal(c) == (CHOOSE i \in 1..10 : DigitChars[i] = c) - 1

Whitespace == {" ", "\t", "\n", "\r"}

Max(a, b) == IF a >= b THEN a ELSE b

Min(a, b) == IF a <= b THEN a ELSE b

\* str.count(c)
Count(s, c) == Cardinality({i \in 1..Len(s) : s[i] = c})

\* str.rfind(c), 1-based; 0 where Python returns -1
RFind(s, c) ==
    IF \E i \in 1..Len(s) : s[i] = c
    THEN CHOOSE i \in 1..Len(s) : s[i] = c /\ \A j \in (i + 1)..Len(s) : s[j] # c
    ELSE 0

\* str.find(c), 1-based; 0 where Python returns -1
Find(s, c) ==
    IF \E i \in 1..Len(s) : s[i] = c
    THEN CHOOSE i \in 1..Len(s) : s[i] = c /\ \A j \in 1..(i - 1) : s[j] # c
    ELSE 0

\* str.replace(c, '')
Remove(s, c) == SelectSeq(s, LAMBDA x : x # c)

\* str.replace(c, d) for single characters
Replace(s, c, d) == [i \in 1..Len(s) |-> IF s[i] = c THEN d ELSE s[i]]

RECURSIVE LStrip(_)
LStrip(s) == IF s # <<>> /\ Head(s) \in Whitespace THEN LStrip(Tail(s)) ELSE s

RECURSIVE RStrip(_)
RStrip(s) ==
    IF s # <<>> /\ s[Len(s)] \in Whitespace
    THEN RStrip(SubSeq(s, 1, Len(s) - 1))
    ELSE s

\* str.strip()
Strip(s) == RStrip(LStrip(s))

UpperLetters == <<"A", "B", "C", "D", "E", "F", "G", "H", "I", "J", "K", "L", "M",
                  "N", "O", "P", "Q", "R", "S", "T", "U", "V", "W", "X", "Y", "Z">>

LowerLetters == <<"a", "b", "c", "d", "e", "f", "g", "h", "i", "j", "k", "l", "m",
                  "n", "o", "p", "q", "r", "s", "t", "u", "v", "w", "x", "y", "z">>

LowerChar(c) ==
    IF \E i \in 1..26 : UpperLetters[i] = c
    THEN LowerLetters[CHOOSE i \in 1..26 : UpperLetters[i] = c]
    ELSE c

\* str.lower()
Lower(s) == [i \in 1..Len(s) |-> LowerChar(s[i])]

AllDigits(s) == \A i \in 1..Len(s) : IsDigit(s[i])

Zeros(n) == [i \in 1..n |-> 0]

RECURSIVE StripLeadingZeros(_)
StripLeadingZeros(ds) ==
    IF ds # <<>> /\ Head(ds) = 0 THEN StripLeadingZeros(Tail(ds)) ELSE ds

\* value of a sequence of decimal digits
RECURSIVE DigitsToInt(_)
DigitsToInt(ds) ==
    IF ds = <<>> THEN 0
    ELSE 10 * DigitsToInt(SubSeq(ds, 1, Len(ds) - 1)) + ds[Len(ds)]

(***************************************************************************)
(* float(): a Python float is modelled by its exact decimal expansion      *)
(*   [ok, inf, neg, ip, fp]  ip/fp = integer and fraction digits (0..9).   *)
(* ok = FALSE is ValueError.  The expansion is the IEEE-754 double for     *)
(* every value below 2^53 that the format step can tell apart (the nearest *)
(* double rounds to the same two decimals except on an exact x.xx5 tie,    *)
(* which TieRoundsUp decides from the double), and inf above DBL_MAX.      *)
(***************************************************************************)
\* leading digits of 2^1024 - 2^970, the smallest decimal that float() maps to inf
DblOverflowPrefix == <<1, 7, 9, 7, 6, 9, 3, 1, 3, 4, 8, 6, 2, 3, 1, 5, 8>>

DblOverflowDigits == 309

DigitAt(ds, i) == IF Len(ds) >= i THEN ds[i] ELSE 0

\* lexicographic > of digit sequences, the shorter padded with zeros
RECURSIVE DigitsGreater(_, _)
DigitsGreater(a, b) ==
    IF a = <<>> /\ b = <<>> THEN FALSE
    ELSE IF DigitAt(a, 1) # DigitAt(b, 1) THEN DigitAt(a, 1) > DigitAt(b, 1)
    ELSE DigitsGreater(IF a = <<>> THEN a ELSE Tail(a), IF b = <<>> THEN b ELSE Tail(b))

ValueError == [ok |-> FALSE, inf |-> FALSE, neg |-> FALSE, ip |-> <<>>, fp |-> <<>>]

Infinity(neg) == [ok |-> TRUE, inf |-> TRUE, neg |-> neg, ip |-> <<>>, fp |-> <<>>]

Finite(neg, ip, fp) ==
    [ok |-> TRUE, inf |-> FALSE, neg |-> neg, ip |-> StripLeadingZeros(ip), fp |-> fp]

\* the digits `all` with the decimal point after the first `point` of them;
\* sig is all without its leading zeros
PlaceDigits(neg, all, point, sig) ==
    IF sig = <<>> THEN Finite(neg, <<>>, <<>>)
    ELSE IF \/ point - (Len(all) - Len(sig)) > DblOverflowDigits
            \/ /\ point - (Len(all) - Len(sig)) = DblOverflowDigits
               /\ DigitsGreater(sig, DblOverflowPrefix)
         THEN Infinity(neg)
    ELSE IF point <= 0 THEN Finite(neg, <<>>, Zeros(0 - point) \o all)
    ELSE IF point >= Len(all) THEN Finite(neg, all \o Zeros(point - Len(all)), <<>>)
    ELSE Finite(neg, SubSeq(all, 1, point), SubSeq(all, point + 1, Len(all)))

\* mantissa digits before and after the point, times 10^e
ScaleDigits(neg, ipd, fpd, e) ==
    PlaceDigits(neg, ipd \o fpd, Len(ipd) + e, StripLeadingZeros(ipd \o fpd))

DigitValues(s) == [i \in 1..Len(s) |-> DigitVal(s[i])]

\* digits [. digits] with at least one digit
MantissaOK(mant) ==
    /\ \A i \in 1..Len(mant) : IsDigit(mant[i]) \/ mant[i] = "."
    /\ Count(mant, ".") <= 1
    /\ \E i \in 1..Len(mant) : IsDigit(mant[i])

IntPart(mant) ==
    IF Find(mant, ".") = 0 THEN mant ELSE SubSeq(mant, 1, Find(mant, ".") - 1)

FracPart(mant) ==
    IF Find(mant, ".") = 0 THEN <<>> ELSE SubSeq(mant, Find(mant, ".") + 1, Len(mant))

HasSign(s) == s # <<>> /\ s[1] \in {"+", "-"}

DropSign(s) == IF HasSign(s) THEN Tail(s) ELSE s

\* [+-]? digits
ExponentOK(expo) == DropSign(expo) # <<>> /\ AllDigits(DropSign(expo))

ExponentValue(expo) ==
    IF HasSign(expo) /\ expo[1] = "-"
    THEN 0 - DigitsToInt(DigitValues(DropSign(expo)))
    ELSE DigitsToInt(DigitValues(DropSign(expo)))

\* position of the first e or E, 0 if there is none
ExponentMark(body) ==
    IF \E i \in 1..Len(body) : body[i] \in {"e", "E"}
    THEN CHOOSE i \in 1..Len(body) :
             /\ body[i] \in {"e", "E"}
             /\ \A j \in 1..(i - 1) : body[j] \notin {"e", "E"}
    ELSE 0

ParseDecimal(neg, mant) ==
    IF MantissaOK(mant)
    THEN ScaleDigits(neg, DigitValues(IntPart(mant)), DigitValues(FracPart(mant)), 0)
    ELSE ValueError

ParseExponential(neg, mant, expo) ==
    IF MantissaOK(mant) /\ ExponentOK(expo)
    THEN ScaleDigits(neg, DigitValues(IntPart(mant)), DigitValues(FracPart(mant)),
                     ExponentValue(expo))
    ELSE ValueError

ParseUnsigned(neg, body, mark) ==
    IF mark = 0 THEN ParseDecimal(neg, body)
    ELSE ParseExponential(neg, SubSeq(body, 1, mark - 1), SubSeq(body, mark + 1, Len(body)))

ParseStripped(s) ==
    ParseUnsigned(HasSign(s) /\ s[1] = "-", DropSign(s), ExponentMark(DropSign(s)))

\* float(text) for text without inf/nan literals and underscores
ParseFloat(text) == ParseStripped(Strip(text))

\* unary minus on a float
Negate(num) == [num EXCEPT !.neg = ~num.neg]

(***************************************************************************)
(* f"{num:.2f}": correctly rounded two-decimal rendering of the double     *)
(***************************************************************************)
RECURSIVE Pow2Mod125(_)
Pow2Mod125(t) == IF t = 0 THEN 1 ELSE (2 * Pow2Mod125(t - 1)) % 125

\* floor(log2(n / 1000)) for n >= 1
RECURSIVE FloorLog2Milli(_)
FloorLog2Milli(n) ==
    IF n >= 2000 THEN 1 + FloorLog2Milli(n \div 2)
    ELSE IF n >= 1000 THEN 0
    ELSE FloorLog2Milli(2 * n) - 1

\* The decimal n/1000 (n ending in 5) lies exactly between two 2-decimal
\* values.  Its double is m * 2^-s with m = round(n * 2^(s-3) / 125) and
\* s = 52 - floor(log2(n/1000)); the remainder r of that division tells whether
\* the double lies above the decimal (round up), below it (round down) or on
\* it (round half to even on the second decimal f2).
TieRemainder(n) == ((n % 125) * Pow2Mod125(49 - FloorLog2Milli(n))) % 125

TieRoundsUp(n, f2) ==
    IF TieRemainder(n) = 0 THEN f2 % 2 = 1 ELSE 2 * TieRemainder(n) > 125

RECURSIVE Increment(_)
Increment(ds) ==
    IF ds = <<>> THEN <<1>>
    ELSE IF ds[Len(ds)] < 9 THEN [ds EXCEPT ![Len(ds)] = @ + 1]
    ELSE Increment(SubSeq(ds, 1, Len(ds) - 1)) \o <<0>>

DigitsToStr(ds) == [i \in 1..Len(ds) |-> DigitChars[ds[i] + 1]]

\* the digits after the second decimal call for rounding away from zero
RoundsUp(ip, f1, f2, rest) ==
    /\ rest # <<>>
    /\ \/ rest[1] > 5
       \/ rest[1] = 5 /\ \E i \in 2..Len(rest) : rest[i] # 0
       \/ /\ rest[1] = 5
          /\ \A i \in 2..Len(rest) : rest[i] = 0
          /\ TieRoundsUp(DigitsToInt(ip \o <<f1, f2, 5>>), f2)

\* the value in hundredths, as digits
RoundedCents(ip, f1, f2, rest) ==
    IF RoundsUp(ip, f1, f2, rest) THEN Increment(ip \o <<f1, f2>>) ELSE ip \o <<f1, f2>>

IntegerStr(int) == IF int = <<>> THEN <<"0">> ELSE DigitsToStr(int)

RenderCents(cents) ==
    IntegerStr(StripLeadingZeros(SubSeq(cents, 1, Len(cents) - 2)))
        \o <<".">> \o DigitsToStr(SubSeq(cents, Len(cents) - 1, Len(cents)))

SignStr(neg) == IF neg THEN <<"-">> ELSE <<>>

\* f"{num:.2f}"
FormatFixed2(num) ==
    IF num.inf THEN SignStr(num.neg) \o <<"i", "n", "f">>
    ELSE SignStr(num.neg)
         \o RenderCents(RoundedCents(num.ip, DigitAt(num.fp, 1), DigitAt(num.fp, 2),
                                     SubSeq(num.fp, 3, Len(num.fp))))

\* str.split('.')
RECURSIVE Split(_, _)
Split(s, c) ==
    IF Find(s, c) = 0 THEN <<s>>
    ELSE <<SubSeq(s, 1, Find(s, c) - 1)>> \o Split(SubSeq(s, Find(s, c) + 1, Len(s)), c)

\* c.join(parts)
RECURSIVE Join(_, _)
Join(parts, c) ==
    IF parts = <<>> THEN <<>>
    ELSE IF Len(parts) = 1 THEN parts[1]
    ELSE parts[1] \o <<c>> \o Join(Tail(parts), c)

\* \w of the regular expressions
IsWord(c) ==
    \/ IsDigit(c)
    \/ c = "_"
    \/ \E i \in 1..26 : c = UpperLetters[i] \/ c = LowerLetters[i]

\* number of consecutive digits of s from position p on
RECURSIVE DigitRun(_, _)
DigitRun(s, p) == IF p <= Len(s) /\ IsDigit(s[p]) THEN 1 + DigitRun(s, p + 1) ELSE 0

\* \B between s[p] and s[p+1] (p = 0: before the first character)
NonWordBoundary(s, p) ==
    (p >= 1 /\ IsWord(s[p])) = (p < Len(s) /\ IsWord(s[p + 1]))

\* re.sub(r'\B(?=(\d{3})+(?!\d))', ',', s)
RECURSIVE AddThousandsFrom(_, _)
AddThousandsFrom(s, p) ==
    (IF /\ NonWordBoundary(s, p)
        /\ DigitRun(s, p + 1) > 0
        /\ DigitRun(s, p + 1) % 3 = 0
     THEN <<",">>
     ELSE <<>>)
    \o (IF p >= Len(s) THEN <<>> ELSE <<s[p + 1]>> \o AddThousandsFrom(s, p + 1))

AddThousands(s) == AddThousandsFrom(s, 0)

\* lines 39 and 128: parts[0] = re.sub(...)
GroupFirst(parts) == [parts EXCEPT ![1] = AddThousands(parts[1])]

\* lines 37-40 and 124-130: format, split, group the integer part, join
FormatGrouped(num) == Join(GroupFirst(Split(FormatFixed2(num), ".")), ".")

(***************************************************************************)
(* NominalFormatter.format_nominal_to_international_format                 *)
(* An outcome is [raised, value]: the returned str, or an exception that   *)
(* leaves the function.                                                    *)
(***************************************************************************)
Return(v) == [raised |-> FALSE, value |-> v]

Raise == [raised |-> TRUE, value |-> <<>>]

\* variant of IsBlank without the strip() test
IsBlank_EmptyOnly(text) == text = <<>>

\* line 25: not nominal or nominal.strip() == ''
IsBlank(text) == text = <<>> \/ Strip(text) = <<>>

\* line 32: 'e' in nominal.lower() or 'E' in nominal
LooksScientific(text) ==
    \/ \E i \in 1..Len(text) : Lower(text)[i] = "e"
    \/ \E i \in 1..Len(text) : text[i] = "E"

\* line 46: re.sub(r'[^\d.,-]', '', nominal)
Clean(text) == SelectSeq(text, LAMBDA c : IsDigit(c) \/ c \in {".", ",", "-"})

\* variant of Unsigned that leaves the minus in place
Unsigned_Keep(cleaned) == cleaned

\* lines 49-51: drop one leading minus
Unsigned(cleaned) ==
    IF cleaned # <<>> /\ Head(cleaned) = "-" THEN Tail(cleaned) ELSE cleaned

\* lines 29 and 49-51
IsNegative(text) ==
    \/ \E i \in 1..Len(text) : text[i] = "-"
    \/ Clean(text) # <<>> /\ Head(Clean(text)) = "-"

\* re.search(r'\d+<th>\d{3}.*<dec>\d+', s): lines 58 and 61
GroupedThenDecimal(s, th, dec) ==
    \E i \in 1..Len(s) :
        /\ i + 4 <= Len(s)
        /\ IsDigit(s[i])
        /\ s[i + 1] = th
        /\ \A k \in (i + 2)..(i + 4) : IsDigit(s[k])
        /\ \E j \in (i + 5)..(Len(s) - 1) :
               /\ s[j] = dec
               /\ IsDigit(s[j + 1])
               /\ \A k \in (i + 5)..(j - 1) : s[k] # "\n"

\* re.search(r'\d+<sep>\d{3}', s): lines 78 and 84
SepThenThreeDigits(s, sep) ==
    \E i \in 1..Len(s) :
        /\ i + 4 <= Len(s)
        /\ IsDigit(s[i])
        /\ s[i + 1] = sep
        /\ \A k \in (i + 2)..(i + 4) : IsDigit(s[k])

\* re.search(r'\d+<sep>\d{1,2}$', s): lines 78 and 84
EndsWithShortDecimals(s, sep) ==
    \E n \in 1..2 :
        /\ Len(s) >= n + 2
        /\ \A k \in (Len(s) - n + 1)..Len(s) : IsDigit(s[k])
        /\ s[Len(s) - n] = sep
        /\ IsDigit(s[Len(s) - n - 1])

\* variant of DecimalSeparator that always takes the comma as decimal
DecimalSeparator_CommaOnly(text, cleaned) == [period |-> FALSE, comma |-> TRUE]

\* variant of DecimalSeparator that always takes the period as decimal
DecimalSeparator_PeriodOnly(text, cleaned) == [period |-> TRUE, comma |-> FALSE]

\* lines 54-90: [period, comma] = using_period_as_decimal, using_comma_as_decimal
DecimalSeparator(text, cleaned) ==
    IF GroupedThenDecimal(text, ",", ".") THEN [period |-> TRUE, comma |-> FALSE]
    ELSE IF GroupedThenDecimal(text, ".", ",") THEN [period |-> FALSE, comma |-> TRUE]
    ELSE IF Count(cleaned, ".") > 0 /\ Count(cleaned, ",") > 0
         THEN [period |-> RFind(cleaned, ".") > RFind(cleaned, ","),
               comma  |-> RFind(cleaned, ",") > RFind(cleaned, ".")]
    ELSE IF Count(cleaned, ".") > 0
         THEN IF SepThenThreeDigits(cleaned, ".") /\ ~EndsWithShortDecimals(cleaned, ".")
              THEN [period |-> FALSE, comma |-> TRUE]
              ELSE [period |-> TRUE, comma |-> FALSE]
    ELSE IF Count(cleaned, ",") > 0
         THEN IF SepThenThreeDigits(cleaned, ",") /\ ~EndsWithShortDecimals(cleaned, ",")
              THEN [period |-> TRUE, comma |-> FALSE]
              ELSE [period |-> FALSE, comma |-> TRUE]
    ELSE [period |-> TRUE, comma |-> FALSE]

\* variant of KeepLast that keeps the first occurrence instead
KeepLast_KeepFirst(s, sep) ==
    SubSeq(s, 1, Find(s, sep)) \o Remove(SubSeq(s, Find(s, sep) + 1, Len(s)), sep)

\* lines 96 and 101: cleaned[:last].replace(sep, '') + cleaned[last:]
KeepLast(s, sep) ==
    Remove(SubSeq(s, 1, RFind(s, sep) - 1), sep) \o SubSeq(s, RFind(s, sep), Len(s))

\* lines 98-101
CollapseCommas(cleaned, using) ==
    IF using.comma /\ Count(cleaned, ",") > 1 THEN KeepLast(cleaned, ",") ELSE cleaned

\* lines 92-101
CollapseDecimals(cleaned, using) ==
    CollapseCommas(IF using.period /\ Count(cleaned, ".") > 1
                   THEN KeepLast(cleaned, ".")
                   ELSE cleaned, using)

\* lines 103-113
Standardize(cleaned, using) ==
    IF using.comma THEN Replace(Remove(cleaned, "."), ",", ".") ELSE Remove(cleaned, ",")

\* variant of ParseFailure that lets the ValueError out
ParseFailure_Raises == Raise

\* lines 120-121: except ValueError: return '0.00'
ParseFailure == Return(<<"0", ".", "0", "0">>)

\* lines 118-130
FormatParsed(parsed, is_negative) ==
    IF parsed.ok
    THEN Return(FormatGrouped(IF is_negative THEN Negate(parsed) ELSE parsed))
    ELSE ParseFailure

\* lines 115-130
ParseAndFormat(standardized, is_negative) ==
    FormatParsed(ParseFloat(standardized), is_negative)

\* lines 92-130
Finish(text, cleaned, using) ==
    ParseAndFormat(Standardize(CollapseDecimals(cleaned, using), using), IsNegative(text))

\* lines 53-130
Disambiguate(text, cleaned) == Finish(text, cleaned, DecimalSeparator(text, cleaned))

\* lines 45-130: the separator path
SeparatorPath(text) == Disambiguate(text, Unsigned(Clean(text)))

\* lines 32-35: float(nominal) if the text holds e or E; ValueError otherwise
\* stands for the branch not taken
ScientificAttempt(text) == IF LooksScientific(text) THEN ParseFloat(text) ELSE ValueError

\* lines 36-43: format directly, or fall through to the separator path
ScientificPath(text, sci) ==
    IF sci.ok THEN Return(FormatGrouped(sci)) ELSE SeparatorPath(text)

\* lines 13-130
FormatNominalOutcome(text) ==
    IF IsBlank(text) THEN Return(<<>>) ELSE ScientificPath(text, ScientificAttempt(text))

format_nominal_to_international_format(text) == FormatNominalOutcome(text).value

(***************************************************************************)
(* Python values: str, int, None, list, dict (ordered, distinct keys).     *)
(* Every value is a record of the same shape so that any two compare.      *)
(***************************************************************************)
Str(s) == [t |-> "str", s |-> s, n |-> 0, keys |-> <<>>, items |-> <<>>]

Num(n) == [t |-> "int", s |-> <<>>, n |-> n, keys |-> <<>>, items |-> <<>>]

None == [t |-> "none", s |-> <<>>, n |-> 0, keys |-> <<>>, items |-> <<>>]

List(items) == [t |-> "list", s |-> <<>>, n |-> 0, keys |-> <<>>, items |-> items]

\* keys[i] maps to items[i]
Dict(keys, items) == [t |-> "dict", s |-> <<>>, n |-> 0, keys |-> keys, items |-> items]

IsContainer(v) == v.t \in {"dict", "list"}

(***************************************************************************)
(* NominalFormatter.format_all_nominal_fields                              *)
(***************************************************************************)
\* lines 146-151: the default nominal_fields
NominalFields ==
    << <<"p", "r", "i", "c", "e">>,
       <<"a", "m", "o", "u", "n", "t">>,
       <<"t", "o", "t", "a", "l">>,
       <<"s", "u", "b", "t", "o", "t", "a", "l">>,
       <<"t", "a", "x">>,
       <<"d", "i", "s", "c", "o", "u", "n", "t">>,
       <<"g", "r", "a", "n", "d", "_", "t", "o", "t", "a", "l">>,
       <<"s", "h", "i", "p", "p", "i", "n", "g">>,
       <<"f", "e", "e">>,
       <<"c", "o", "s", "t">>,
       <<"v", "a", "l", "u", "e">>,
       <<"r", "a", "t", "e">>,
       <<"b", "a", "l", "a", "n", "c", "e">>,
       <<"p", "a", "y", "m", "e", "n", "t">>,
       <<"d", "u", "e">>,
       <<"p", "a", "i", "d">> >>

\* sub in s
Contains(s, sub) ==
    \E i \in 0..(Len(s) - Len(sub)) : SubSeq(s, i + 1, i + Len(sub)) = sub

\* variant of IsNominalKey that compares the key without lowering it
IsNominalKey_CaseSensitive(key) ==
    \E k \in 1..Len(NominalFields) : Contains(key, NominalFields[k])

\* line 164: any(nominal_field in key.lower() for nominal_field in nominal_fields)
IsNominalKey(key) ==
    \E k \in 1..Len(NominalFields) : Contains(Lower(key), NominalFields[k])

RECURSIVE process_item(_)

\* variant of ProcessEntry that formats every string, whatever its key
ProcessEntry_AnyKey(key, value) ==
    IF IsContainer(value) THEN process_item(value)
    ELSE IF value.t = "str" THEN Str(format_nominal_to_international_format(value.s))
    ELSE value

\* variant of ProcessEntry that skips the containers under a nominal key
ProcessEntry_KeyFirst(key, value) ==
    IF value.t = "str" /\ IsNominalKey(key)
    THEN Str(format_nominal_to_international_format(value.s))
    ELSE IF IsContainer(value) /\ ~IsNominalKey(key) THEN process_item(value)
    ELSE value

\* lines 160-166: one key, value of a dict
ProcessEntry(key, value) ==
    IF IsContainer(value) THEN process_item(value)
    ELSE IF value.t = "str" /\ IsNominalKey(key)
         THEN Str(format_nominal_to_international_format(value.s))
    ELSE value

\* lines 157-173
process_item(item) ==
    IF item.t = "dict"
    THEN [item EXCEPT !.items =
             [i \in 1..Len(item.items) |-> ProcessEntry(item.keys[i], item.items[i])]]
    ELSE IF item.t = "list"
    THEN [item EXCEPT !.items = [i \in 1..Len(item.items) |-> process_item(item.items[i])]]
    ELSE item

\* an exception leaves process_item: only the call of line 166 can raise
RECURSIVE ItemRaises(_)
ItemRaises(item) ==
    \E i \in 1..Len(item.items) :
        \/ IsContainer(item.items[i]) /\ ItemRaises(item.items[i])
        \/ /\ item.t = "dict"
           /\ item.items[i].t = "str"
           /\ IsNominalKey(item.keys[i])
           /\ FormatNominalOutcome(item.items[i].s).raised

\* lines 133-176: data_dict.copy() is shallow, process_item works on the copy
FormatAllOutcome(record) ==
    IF ItemRaises(record) THEN Raise ELSE Return(process_item(record))

format_all_nominal_fields(record) == FormatAllOutcome(record).value

\* What the caller's objects hold after the call.  A list is rebuilt by line
\* 170, so a list the caller still refers to keeps its elements, but the dicts
\* in it are the ones process_item wrote into.
RECURSIVE SharedList(_)
SharedList(list) ==
    [list EXCEPT !.items =
        [i \in 1..Len(list.items) |->
            IF list.items[i].t = "dict" THEN process_item(list.items[i])
            ELSE IF list.items[i].t = "list" THEN SharedList(list.items[i])
            ELSE list.items[i]]]

\* line 154: the top-level dict is copied, the values under it are shared
CallerView(record) ==
    [record EXCEPT !.items =
        [i \in 1..Len(record.items) |->
            IF record.items[i].t = "dict" THEN process_item(record.items[i])
            ELSE IF record.items[i].t = "list" THEN SharedList(record.items[i])
            ELSE record.items[i]]]

(***************************************************************************)
(* Inputs of format_nominal_to_international_format                        *)
(***************************************************************************)
MaxLen == 3          \* free-form text over Alphabet

MaxNumLen == 6       \* digits and separators, optionally signed

MaxGroups == 1       \* thousands groups of a well-formed amount

MaxExp == 3          \* |exponent| of a scientific literal

Alphabet == {"0", "1", "5", ".", ",", "-", " ", "a"}

NumAlphabet == {"0", "5", ".", ","}

Strings(alphabet, n) == UNION {[1..k -> alphabet] : k \in 0..n}

TextInputs == Strings(Alphabet, MaxLen)

NumericInputs ==
    {sign \o s : sign \in {<<>>, <<"-">>}, s \in Strings(NumAlphabet, MaxNumLen)}

\* mantissa, e or E, exponent: valid literals, malformed ones, and one past DBL_MAX
SciMantissas == Strings({"1", "5", ".", "-"}, 2)

SciExponents ==
    {<<>>, <<"-">>, <<"a">>, <<"9", "9", "9">>, <<"-", "9", "9", "9">>}
        \cup {<<DigitChars[k + 1]>> : k \in 0..MaxExp}
        \cup {<<"-", DigitChars[k + 1]>> : k \in 0..MaxExp}

SciInputs == {m \o <<e>> \o x : m \in SciMantissas, e \in {"e", "E"}, x \in SciExponents}

\* well-formed amounts: 1-3 leading digits, groups of three, two decimals
AmountDigits == {"0", "5"}

AmountLeads ==
    {s \in Strings(AmountDigits, 3) : s # <<>> /\ s[1] # "0"}

RECURSIVE AmountGroups(_, _)
AmountGroups(th, n) ==
    IF n = 0 THEN {<<>>}
    ELSE AmountGroups(th, n - 1)
         \cup {g \o <<th>> \o d : g \in AmountGroups(th, n - 1), d \in [1..3 -> AmountDigits]}

Amounts(th, dec) ==
    {lead \o g \o <<dec>> \o d :
        lead \in AmountLeads, g \in AmountGroups(th, MaxGroups), d \in [1..2 -> AmountDigits]}
    \cup {<<"0", dec>> \o d : d \in [1..2 -> AmountDigits]}

AmountInputs == Amounts(",", ".") \cup Amounts(".", ",")

\* amounts with other digits, signs and stray characters
SampleAmounts ==
    { <<"-", "1", "2", "3", "4", ".", "5">>,
      <<"1", ".", "5", "e", "3">>,
      <<"1", ",", "2", "3", ".", "4", "5">>,
      <<"1", "2", ".", "3", "4", ",", "5">>,
      <<"1", ".", "0", "0", "0">>,
      <<"1", "0", ",", "0", "0">>,
      <<"1", ".", "2", ".", "3">>,
      <<"1", ".", "2", "3", "4", ".", "5", "6">>,
      <<"-", "1", ",", "0", "a", "0", "0", ".", "5", ",", "5">>,
      <<"-", " ", "1", "e", "3">>,
      <<"1", ".", "2", "3", "4", "5">> }

ScalarInputs ==
    TextInputs \cup NumericInputs \cup SciInputs \cup AmountInputs \cup SampleAmounts

(***************************************************************************)
(* A caller applying format_nominal_to_international_format to a string    *)
(* and then to the string it got back                                      *)
(***************************************************************************)
ScalarInit ==
    /\ pc = "call_format_nominal"
    /\ nominal \in ScalarInputs
    /\ result = <<>>
    /\ again = <<>>
    /\ raised = FALSE
    /\ original = None
    /\ data_dict = None
    /\ formatted_dict = None
    /\ formatted_again = None
    /\ results = <<>>
    /\ merged_result = None
    /\ responses = <<>>
    /\ steps = <<>>
    /\ final_result = None

FormatNominal ==
    /\ pc = "call_format_nominal"
    /\ \E outcome \in {FormatNominalOutcome(nominal)} :
           /\ raised' = outcome.raised
           /\ result' = outcome.value
           /\ pc' = IF outcome.raised THEN "failed" ELSE "format_nominal_returned"
    /\ UNCHANGED <<nominal, again, original, data_dict, formatted_dict, formatted_again,
                   results, merged_result,
                   responses, steps, final_result>>

FormatNominalAgain ==
    /\ pc = "format_nominal_returned"
    /\ \E outcome \in {FormatNominalOutcome(result)} :
           /\ raised' = outcome.raised
           /\ again' = outcome.value
           /\ pc' = IF outcome.raised THEN "failed" ELSE "format_nominal_returned_again"
    /\ UNCHANGED <<nominal, result, original, data_dict, formatted_dict, formatted_again,
                   results, merged_result,
                   responses, steps, final_result>>

ScalarNext == FormatNominal \/ FormatNominalAgain

SpecScalar == ScalarInit /\ [][ScalarNext]_vars

(***************************************************************************)
(* Properties of format_nominal_to_international_format                    *)
(***************************************************************************)
Returned == pc \in {"format_nominal_returned", "format_nominal_returned_again"}

\* int is \d{1,3}(<th>\d{3})*
Grouped(int, th) ==
    /\ (Len(int) % 4) \in 1..3
    /\ \A i \in 1..Len(int) :
           IF i > (Len(int) % 4) /\ ((i - (Len(int) % 4)) % 4) = 1
           THEN int[i] = th
           ELSE IsDigit(int[i])

\* s is \d{1,3}(<th>\d{3})*<dec>\d{2}
GroupedAmount(s, th, dec) ==
    /\ Len(s) >= 4
    /\ s[Len(s) - 2] = dec
    /\ IsDigit(s[Len(s) - 1])
    /\ IsDigit(s[Len(s)])
    /\ Grouped(SubSeq(s, 1, Len(s) - 3), th)

\* s matches -?\d{1,3}(,\d{3})*\.\d{2}
IsCanonical(s) ==
    GroupedAmount(IF s # <<>> /\ s[1] = "-" THEN Tail(s) ELSE s, ",", ".")

OnlyWhitespace(s) == \A i \in 1..Len(s) : s[i] \in Whitespace

ZeroString == <<"0", ".", "0", "0">>

\* C1: every input that is not empty or whitespace-only is returned in the
\* canonical form -?\d{1,3}(,\d{3})*\.\d{2}.
C1_AlwaysCanonical ==
    (Returned /\ ~OnlyWhitespace(nominal)) => IsCanonical(result)

\* the input holds no digit at all
NoDigit(s) == \A i \in 1..Len(s) : ~IsDigit(s[i])

\* outside scientific notation, a minus sign stands after a digit
InteriorMinus(s) ==
    /\ \A i \in 1..Len(s) : s[i] \notin {"e", "E"}
    /\ \E i, j \in 1..Len(s) :
           /\ i < j
           /\ s[j] = "-"
           /\ IsDigit(s[i])

\* C2: an empty or whitespace-only input returns the empty string; a non-blank
\* input that holds no parseable number (no digit, or a minus sign inside the
\* number) returns exactly "0.00".
C2_BlankVersusUnparseable ==
    Returned =>
        /\ OnlyWhitespace(nominal) => result = <<>>
        /\ (~OnlyWhitespace(nominal) /\ (NoDigit(nominal) \/ InteriorMinus(nominal)))
               => result = ZeroString

C2_Witness ==
    /\ pc = "format_nominal_returned"
    /\ nominal = <<" ", "a", "-">>
    /\ result = ZeroString

\* s is a well-formed amount: no leading zero, groups of three, two decimals
WellFormed(s, th, dec) ==
    /\ GroupedAmount(s, th, dec)
    /\ s[1] = "0" => s[2] = dec

SwapSeparators(s) ==
    [i \in 1..Len(s) |-> IF s[i] = "." THEN "," ELSE IF s[i] = "," THEN "." ELSE s[i]]

\* C3: the comma-decimal rendering and the period-decimal rendering of a
\* well-formed amount are both mapped to the same canonical string, the
\* period-decimal rendering.
C3_BothConventionsAgree ==
    Returned =>
        /\ WellFormed(nominal, ",", ".") => result = nominal
        /\ WellFormed(nominal, ".", ",") =>
               /\ result = SwapSeparators(nominal)
               /\ result = format_nominal_to_international_format(SwapSeparators(nominal))

C3_Witness ==
    /\ pc = "format_nominal_returned"
    /\ nominal = <<"5", ".", "0", "0", "0", ",", "5", "0">>
    /\ result = <<"5", ",", "0", "0", "0", ".", "5", "0">>

\* C4: applying the function to its own result gives the same result.
C4_Idempotent ==
    pc = "format_nominal_returned_again" => again = result

(***************************************************************************)
(* Inputs of format_all_nominal_fields                                     *)
(***************************************************************************)
MaxListLen == 2      \* elements of a list

total_amount == <<"t", "o", "t", "a", "l", "_", "a", "m", "o", "u", "n", "t">>

Item_Price == <<"I", "t", "e", "m", "_", "P", "r", "i", "c", "e">>

note == <<"n", "o", "t", "e">>

items == <<"i", "t", "e", "m", "s">>

tax_lines == <<"t", "a", "x", "_", "l", "i", "n", "e", "s">>

\* comma decimal, both separators, blank, no number, beyond the float range
SampleStrings ==
    { <<"1", "0", ",", "0", "0">>,
      <<"1", ".", "2", "3", "4", ",", "5", "6">>,
      <<>>,
      <<"a", "b", "c">>,
      <<"1", "e", "9", "9", "9">> }

Leaves == {Str(s) : s \in SampleStrings} \cup {Num(5), None}

ScalarKeys == {total_amount, Item_Price, note}

ContainerKeys == {items, tax_lines}

LineItems == {Dict(<<k>>, <<v>>) : k \in ScalarKeys, v \in Leaves} \cup {Dict(<<>>, <<>>)}

Elements ==
    { Dict(<<total_amount>>, <<Str(<<"1", ".", "2", "3", "4", ",", "5", "6">>)>>),
      Dict(<<total_amount>>, <<Str(<<"1", "e", "9", "9", "9">>)>>),
      Dict(<<total_amount>>, <<Num(5)>>),
      Dict(<<Item_Price>>, <<Str(<<"a", "b", "c">>)>>),
      Dict(<<note>>, <<Str(<<"1", "0", ",", "0", "0">>)>>),
      Dict(<<tax_lines>>, <<List(<<Dict(<<Item_Price>>, <<Str(<<"1", "0", ",", "0", "0">>)>>), Str(<<"1", "0", ",", "0", "0">>)>>)>>),
      Dict(<<>>, <<>>),
      List(<<Dict(<<total_amount>>, <<Str(<<"1", "0", ",", "0", "0">>)>>)>>),
      Str(<<"1", "0", ",", "0", "0">>),
      Num(5) }

Lists == {List(l) : l \in UNION {[1..k -> Elements] : k \in 0..MaxListLen}}

\* records in the schema of PROMPT_OUTPUT_INVOICE: the fields the prompt asks
\* for, with dates in DD-MM-YYYY form, identifiers and amounts
InvoiceKeys ==
    <<<<"d", "o", "c", "u", "m", "e", "n", "t", "_", "t", "y", "p", "e">>,
      <<"c", "u", "s", "t", "o", "m", "e", "r", "_", "n", "a", "m", "e">>,
      <<"g", "r", "a", "n", "d", "_", "t", "o", "t", "a", "l">>,
      <<"i", "n", "v", "o", "i", "c", "e", "_", "d", "a", "t", "e">>,
      <<"i", "n", "v", "o", "i", "c", "e", "_", "d", "u", "e", "_", "d", "a", "t", "e">>,
      <<"i", "n", "v", "o", "i", "c", "e", "_", "n", "u", "m", "b", "e", "r">>,
      <<"i", "t", "e", "m", "s">>,
      <<"p", "u", "r", "c", "h", "a", "s", "e", "_", "o", "r", "d", "e", "r", "_", "n", "u", "m", "b", "e", "r">>,
      <<"t", "o", "t", "a", "l", "_", "a", "m", "o", "u", "n", "t">>>>

InvoiceItemKeys ==
    <<<<"i", "t", "e", "m", "_", "c", "o", "d", "e">>,
      <<"i", "t", "e", "m", "_", "p", "r", "o", "d", "u", "c", "t", "_", "n", "a", "m", "e">>,
      <<"i", "t", "e", "m", "_", "p", "r", "i", "c", "e", "_", "u", "n", "i", "t">>,
      <<"i", "t", "e", "m", "_", "q", "u", "a", "n", "t", "i", "t", "y">>,
      <<"i", "t", "e", "m", "_", "t", "o", "t", "a", "l", "_", "a", "m", "o", "u", "n", "t">>,
      <<"c", "u", "r", "r", "e", "n", "c", "y">>>>

InvoiceDates == {<<"1", "5", "-", "0", "1", "-", "2", "0", "2", "4">>, <<"0", "1", "-", "0", "2", "-", "2", "0", "2", "4">>}

InvoiceNumbers == {<<"I", "N", "V", "/", "2", "0", "2", "4", "/", "0", "0", "1">>, <<"0", "0", "1", "2">>}

InvoiceAmounts == {<<"1", ".", "2", "3", "4", ",", "5", "6">>, <<"1", "0", ",", "0", "0">>}

InvoiceItem(amount) ==
    Dict(InvoiceItemKeys,
         <<Str(<<"S", "K", "U", "-", "1">>), Str(<<"L", "a", "p", "t", "o", "p", " ", "S", "t", "a", "n", "d">>), Str(amount), Str(<<"2">>), Str(amount), Str(<<"I", "D", "R">>)>>)

Invoice(date, due, number, order, amount) ==
    Dict(InvoiceKeys,
         <<Str(<<"i", "n", "v", "o", "i", "c", "e">>), Str(<<"P", "T", " ", "M", "a", "j", "u">>), Str(amount), Str(date), Str(due), Str(number),
           List(<<InvoiceItem(amount)>>), Str(order), Str(amount)>>)

InvoiceRecords ==
    {Invoice(date, due, number, order, amount) :
        date \in InvoiceDates, due \in InvoiceDates, number \in InvoiceNumbers,
        order \in InvoiceNumbers, amount \in InvoiceAmounts}

Records ==
    {Dict(<<k>>, <<v>>) : k \in ScalarKeys, v \in Leaves}
        \cup {Dict(<<note, k>>, <<Str(<<"a", "b", "c">>), v>>) : k \in ContainerKeys, v \in Lists \cup LineItems}
        \cup InvoiceRecords

(***************************************************************************)
(* A caller applying format_all_nominal_fields to a record and then to the *)
(* record it got back                                                      *)
(***************************************************************************)
RecordInit ==
    /\ pc = "call_format_all"
    /\ nominal = <<>>
    /\ result = <<>>
    /\ again = <<>>
    /\ raised = FALSE
    /\ original \in Records
    /\ data_dict = original
    /\ formatted_dict = None
    /\ formatted_again = None
    /\ results = <<>>
    /\ merged_result = None
    /\ responses = <<>>
    /\ steps = <<>>
    /\ final_result = None

FormatAll ==
    /\ pc = "call_format_all"
    /\ \E outcome \in {FormatAllOutcome(data_dict)} :
           /\ raised' = outcome.raised
           /\ formatted_dict' = IF outcome.raised THEN None ELSE outcome.value
           /\ pc' = IF outcome.raised THEN "failed" ELSE "format_all_returned"
    /\ data_dict' = CallerView(data_dict)
    /\ UNCHANGED <<nominal, result, again, original, formatted_again, results, merged_result,
                   responses, steps, final_result>>

\* the second call works on the returned record, whose nested parts the
\* caller's record shares
FormatAllAgain ==
    /\ pc = "format_all_returned"
    /\ \E outcome \in {FormatAllOutcome(formatted_dict)} :
           /\ raised' = outcome.raised
           /\ formatted_again' = IF outcome.raised THEN None ELSE outcome.value
           /\ pc' = IF outcome.raised THEN "failed" ELSE "format_all_returned_again"
    /\ formatted_dict' = CallerView(formatted_dict)
    /\ data_dict' = CallerView(data_dict)
    /\ UNCHANGED <<nominal, result, again, original, results, merged_result,
                   responses, steps, final_result>>

RecordNext == FormatAll \/ FormatAllAgain

SpecRecord == RecordInit /\ [][RecordNext]_vars

\* both functions of NominalFormatter
FormatterInit == ScalarInit \/ RecordInit

FormatterNext == FormatNominal \/ FormatNominalAgain \/ FormatAll \/ FormatAllAgain

SpecFormatter == FormatterInit /\ [][FormatterNext]_vars

(***************************************************************************)
(* Properties of format_all_nominal_fields                                 *)
(***************************************************************************)
\* C5: formatting the formatted record gives a record equal to the record
\* formatted once.
C5_RecordIdempotent ==
    pc = "format_all_returned_again" =>
        formatted_again = format_all_nominal_fields(original)

\* the key, lowered, holds one of the nominal keywords
NamesNominal(key) ==
    \E k \in 1..Len(NominalFields) : Contains(Lower(key), NominalFields[k])

\* out holds the formatted string wherever before holds a string under a
\* nominal key, in before itself and in every dict and list below it
RECURSIVE Replaced(_, _)
Replaced(before, out) ==
    /\ out.t = before.t
    /\ Len(out.items) = Len(before.items)
    /\ \A i \in 1..Len(before.items) :
           /\ IsContainer(before.items[i]) => Replaced(before.items[i], out.items[i])
           /\ (before.t = "dict" /\ before.items[i].t = "str" /\ NamesNominal(before.keys[i]))
                  => out.items[i] =
                         Str(format_nominal_to_international_format(before.items[i].s))

\* C6: at every depth of dicts and lists, a string under a key whose lowercase
\* form holds a nominal keyword is replaced by its formatted string, and every
\* dict or list is descended into whatever key it stands under.
C6_ReplacesAtEveryDepth ==
    pc = "format_all_returned" => Replaced(original, formatted_dict)

\* under the unmatched key "items": a list whose dict holds a nominal string,
\* and under the matched key "tax_lines": a dict with a list with a dict
C6_Witness ==
    /\ pc = "format_all_returned"
    /\ original = Dict(<<note, tax_lines>>,
                       <<Str(<<"a", "b", "c">>),
                         List(<<Dict(<<tax_lines>>,
                                     <<List(<<Dict(<<Item_Price>>, <<Str(<<"1", "0", ",", "0", "0">>)>>),
                                              Str(<<"1", "0", ",", "0", "0">>)>>)>>)>>)>>)
    /\ formatted_dict.items[2].items[1].items[1].items[1].items[1] = Str(<<"1", "0", ".", "0", "0">>)

\* same keys, same lengths, same order; only strings under nominal keys differ
RECURSIVE SameShape(_, _)
SameShape(before, out) ==
    /\ out.t = before.t
    /\ out.keys = before.keys
    /\ Len(out.items) = Len(before.items)
    /\ \A i \in 1..Len(before.items) :
           IF IsContainer(before.items[i])
           THEN SameShape(before.items[i], out.items[i])
           ELSE IF before.t = "dict" /\ before.items[i].t = "str" /\ NamesNominal(before.keys[i])
                THEN out.items[i].t = "str"
                ELSE out.items[i] = before.items[i]

\* C7: the result has the keys of the input at every level, lists of the same
\* length in the same order, and every value other than a string under a
\* nominal key (other keys, non-string scalars, strings in lists) unchanged.
C7_ShapePreserved ==
    pc = "format_all_returned" => SameShape(original, formatted_dict)

\* a string element of a list and a string under "note" stay, next to a
\* nominal string that is rewritten
C7_Witness ==
    /\ pc = "format_all_returned"
    /\ original = Dict(<<note, items>>,
                       <<Str(<<"a", "b", "c">>),
                         List(<<Str(<<"1", "0", ",", "0", "0">>), Dict(<<total_amount>>, <<Str(<<"1", ".", "2", "3", "4", ",", "5", "6">>)>>)>>)>>)
    /\ formatted_dict = Dict(<<note, items>>,
                             <<Str(<<"a", "b", "c">>),
                               List(<<Str(<<"1", "0", ",", "0", "0">>), Dict(<<total_amount>>, <<Str(<<"1", ",", "2", "3", "4", ".", "5", "6">>)>>)>>)>>)

\* every value under a nominal key, at every depth, is a canonical string
RECURSIVE AllNominalCanonical(_)
AllNominalCanonical(out) ==
    \A i \in 1..Len(out.items) :
        /\ IsContainer(out.items[i]) => AllNominalCanonical(out.items[i])
        /\ (out.t = "dict" /\ NamesNominal(out.keys[i]))
               => (out.items[i].t = "str" /\ IsCanonical(out.items[i].s))

Overflows(s) == LooksScientific(s) /\ ParseFloat(s).ok /\ ParseFloat(s).inf

InfStrings == {<<"i", "n", "f">>, <<"-", "i", "n", "f">>}

\* what a nominal field that held the string s holds afterwards
NominalSettled(s, out) ==
    /\ out.t = "str"
    /\ IF OnlyWhitespace(s) THEN out.s = <<>>
       ELSE IF Overflows(s) THEN out.s \in InfStrings
       ELSE IsCanonical(out.s)

RECURSIVE NominalFieldsSettled(_, _)
NominalFieldsSettled(before, out) ==
    \A i \in 1..Len(before.items) :
        IF IsContainer(before.items[i])
        THEN NominalFieldsSettled(before.items[i], out.items[i])
        ELSE (before.t = "dict" /\ NamesNominal(before.keys[i])) =>
                 IF before.items[i].t = "str"
                 THEN NominalSettled(before.items[i].s, out.items[i])
                 ELSE out.items[i] = before.items[i]

RECURSIVE MalformedZeroed(_, _)
MalformedZeroed(before, out) ==
    \A i \in 1..Len(before.items) :
        /\ IsContainer(before.items[i]) => MalformedZeroed(before.items[i], out.items[i])
        /\ ( /\ before.t = "dict"
             /\ NamesNominal(before.keys[i])
             /\ before.items[i].t = "str"
             /\ ~OnlyWhitespace(before.items[i].s)
             /\ NoDigit(before.items[i].s) ) => out.items[i] = Str(ZeroString)

\* C9: no call of either function raises; a non-blank string that holds no
\* number comes back as "0.00", from the scalar function and inside a record.
C9_NeverRaises ==
    /\ raised = FALSE
    /\ pc # "failed"
    /\ (pc = "format_nominal_returned" /\ ~OnlyWhitespace(nominal) /\ NoDigit(nominal))
           => result = ZeroString
    /\ pc = "format_all_returned" => MalformedZeroed(original, formatted_dict)

\* a malformed string inside a record has been formatted without an exception
C9_Witness ==
    /\ pc = "format_all_returned"
    /\ raised = FALSE
    /\ original = Dict(<<note, items>>, <<Str(<<"a", "b", "c">>), List(<<Dict(<<Item_Price>>, <<Str(<<"a", "b", "c">>)>>)>>)>>)
    /\ formatted_dict.items[2].items[1].items[1] = Str(ZeroString)

(***************************************************************************)
(* dict operations                                                         *)
(***************************************************************************)
\* key in d
Has(d, key) == \E i \in 1..Len(d.keys) : d.keys[i] = key

\* d[key]
Get(d, key) == d.items[CHOOSE i \in 1..Len(d.keys) : d.keys[i] = key]

\* d[key] = value: a present key keeps its place, a new key goes last
Put(d, key, value) ==
    IF Has(d, key)
    THEN [d EXCEPT !.items = [i \in 1..Len(d.items) |->
                                  IF d.keys[i] = key THEN value ELSE d.items[i]]]
    ELSE [d EXCEPT !.keys = Append(d.keys, key), !.items = Append(d.items, value)]

\* bool(v)
Truthy(v) ==
    IF v.t = "str" THEN v.s # <<>>
    ELSE IF v.t = "int" THEN v.n # 0
    ELSE IF v.t = "none" THEN FALSE
    ELSE v.items # <<>>

(***************************************************************************)
(* OCRService._merge_multi_page_results                                    *)
(***************************************************************************)
document_type == <<"d", "o", "c", "u", "m", "e", "n", "t", "_", "t", "y", "p", "e">>

usage == <<"u", "s", "a", "g", "e">>

error == <<"e", "r", "r", "o", "r">>

\* lines 617-646: document type and the key it merges, in the order of the chain
TypedCollections ==
    << <<<<"s", "a", "l", "e", "s", "_", "i", "n", "v", "o", "i", "c", "e">>, <<"s", "a", "l", "e", "s", "_", "i", "n", "v", "o", "i", "c", "e", "s">>>>,
       <<<<"p", "u", "r", "c", "h", "a", "s", "e", "_", "i", "n", "v", "o", "i", "c", "e">>, <<"p", "u", "r", "c", "h", "a", "s", "e", "_", "i", "n", "v", "o", "i", "c", "e", "s">>>>,
       <<<<"p", "r", "o", "d", "u", "c", "t">>, <<"p", "r", "o", "d", "u", "c", "t", "s">>>>,
       <<<<"p", "a", "r", "t", "n", "e", "r">>, <<"p", "a", "r", "t", "n", "e", "r", "s">>>> >>

\* line 614: merged_result.get('document_type', 'unknown')
DocumentType(base) ==
    IF Has(base, document_type) THEN Get(base, document_type) ELSE Str(<<"u", "n", "k", "n", "o", "w", "n">>)

\* the branches of lines 617-646 whose condition holds for the first page
TypedBranches(base) ==
    {k \in 1..Len(TypedCollections) :
        /\ DocumentType(base) = Str(TypedCollections[k][1])
        /\ Has(base, TypedCollections[k][2])}

NoKey == <<>>

\* lines 617-648: the key of the branch taken, NoKey when none is
MergeKey(base) ==
    IF TypedBranches(base) # {}
    THEN TypedCollections[CHOOSE k \in TypedBranches(base) :
                              \A j \in TypedBranches(base) : k <= j][2]
    ELSE IF Has(base, items) THEN items
    ELSE NoKey

\* all_x.extend(result[key]) appends the elements of a list, the characters
\* of a string, the keys of a dict
Elems(v) ==
    IF v.t = "list" THEN v.items
    ELSE IF v.t = "dict" THEN [i \in 1..Len(v.keys) |-> Str(v.keys[i])]
    ELSE [i \in 1..Len(v.s) |-> Str(<<v.s[i]>>)]

\* lines 620-622 and alike: key in result and result[key]
Contributes(page, key) == Has(page, key) /\ Truthy(Get(page, key))

\* extend raises TypeError for a number other than 0
ExtendRaises(pages, key) ==
    \E p \in 1..Len(pages) : Contributes(pages[p], key) /\ Get(pages[p], key).t = "int"

\* lines 619-622 and alike: the elements of every page that has the key, in order
RECURSIVE Collect(_, _)
Collect(pages, key) ==
    IF pages = <<>> THEN <<>>
    ELSE (IF Contributes(Head(pages), key) THEN Elems(Get(Head(pages), key)) ELSE <<>>)
             \o Collect(Tail(pages), key)

\* lines 616-655
MergeCollection(base, pages, key) ==
    IF key = NoKey THEN base ELSE Put(base, key, List(Collect(pages, key)))

\* total_usage after a failed addition
TypeError == [t |-> "raised", s |-> <<>>, n |-> 0, keys |-> <<>>, items |-> <<>>]

\* variant of AddUsage in which a value that is no number never replaces one
\* that is there
AddUsage_KeepFirst(total, key, value) ==
    IF total = TypeError THEN TypeError
    ELSE IF value.t # "int" THEN (IF Has(total, key) THEN total ELSE Put(total, key, value))
    ELSE IF ~Has(total, key) THEN Put(total, key, value)
    ELSE IF Get(total, key).t = "int" THEN Put(total, key, Num(Get(total, key).n + value.n))
    ELSE TypeError

\* lines 662-665: numbers are added to what the key holds (0 when absent),
\* anything else replaces it; adding a number to a string or None raises
AddUsage(total, key, value) ==
    IF total = TypeError THEN TypeError
    ELSE IF value.t # "int" THEN Put(total, key, value)
    ELSE IF ~Has(total, key) THEN Put(total, key, value)
    ELSE IF Get(total, key).t = "int" THEN Put(total, key, Num(Get(total, key).n + value.n))
    ELSE TypeError

\* lines 661-665: the entries of one page's usage from the i-th on
RECURSIVE AddUsageEntries(_, _, _)
AddUsageEntries(total, page_usage, i) ==
    IF i > Len(page_usage.keys) THEN total
    ELSE AddUsageEntries(AddUsage(total, page_usage.keys[i], page_usage.items[i]),
                         page_usage, i + 1)

\* line 661: result['usage'].items() raises unless usage is a dict
UsageRaises(pages) ==
    \E p \in 1..Len(pages) : Has(pages[p], usage) /\ Get(pages[p], usage).t # "dict"

\* lines 658-665
RECURSIVE TotalUsage(_, _)
TotalUsage(total, pages) ==
    IF pages = <<>> THEN total
    ELSE TotalUsage(IF Has(Head(pages), usage) /\ Get(Head(pages), usage).t = "dict"
                    THEN AddUsageEntries(total, Get(Head(pages), usage), 1)
                    ELSE total,
                    Tail(pages))

\* lines 657-669
MergeUsage(merged, pages, total) ==
    IF UsageRaises(pages) \/ total = TypeError
    THEN Raise
    ELSE Return(Put(merged, usage, total))

\* lines 610-669: results[0] is deep-copied, so the base is a value of its own
MergeFrom(base, pages) ==
    IF ExtendRaises(pages, MergeKey(base))
    THEN Raise
    ELSE MergeUsage(MergeCollection(base, pages, MergeKey(base)), pages,
                    TotalUsage(Dict(<<>>, <<>>), pages))

\* variant of MergeOutcome that raises for an empty sequence
MergeOutcome_EmptyRaises(pages) ==
    IF pages = <<>> THEN Raise ELSE MergeFrom(pages[1], pages)

\* variant of MergeOutcome that starts from the last page
MergeOutcome_LastPage(pages) ==
    IF pages = <<>>
    THEN Return(Dict(<<error>>, <<Str(<<"N", "o", " ", "r", "e", "s", "u", "l", "t", "s", " ", "t", "o", " ", "m", "e", "r", "g", "e">>)>>))
    ELSE MergeFrom(pages[Len(pages)], pages)

\* lines 597-669
MergeOutcome(pages) ==
    IF pages = <<>>
    THEN Return(Dict(<<error>>, <<Str(<<"N", "o", " ", "r", "e", "s", "u", "l", "t", "s", " ", "t", "o", " ", "m", "e", "r", "g", "e">>)>>))
    ELSE MergeFrom(pages[1], pages)

_merge_multi_page_results(pages) == MergeOutcome(pages).value

(***************************************************************************)
(* Inputs of _merge_multi_page_results                                     *)
(***************************************************************************)
MaxPages == 2        \* page results of one document

sales_invoices == TypedCollections[1][2]

partners == TypedCollections[4][2]

Item(name) == Dict(<<<<"n", "a", "m", "e">>>>, <<Str(<<name>>)>>)

\* what a page says about its type
TypeFields ==
    { Dict(<<>>, <<>>),
      Dict(<<document_type>>, <<Str(<<"i", "n", "v", "o", "i", "c", "e">>)>>),
      Dict(<<document_type>>, <<Str(TypedCollections[1][1])>>) }

\* the collections a page carries
CollectionFields ==
    { Dict(<<>>, <<>>),
      Dict(<<items>>, <<List(<<>>)>>),
      Dict(<<items>>, <<List(<<Item("A")>>)>>),
      Dict(<<items>>, <<List(<<Item("B"), Item("C")>>)>>),
      Dict(<<sales_invoices>>, <<List(<<Item("B"), Item("A")>>)>>),
      Dict(<<items, sales_invoices>>, <<List(<<Item("A")>>), List(<<Item("C")>>)>>) }

\* a scalar field and the usage counters of a page
UsageFields ==
    { Dict(<<>>, <<>>),
      Dict(<<<<"v", "e", "n", "d", "o", "r">>, usage>>,
           <<Str(<<"v", "1">>), Dict(<<<<"t", "o", "k", "e", "n", "s">>>>, <<Num(10)>>)>>),
      Dict(<<<<"v", "e", "n", "d", "o", "r">>, usage>>,
           <<Str(<<"v", "2">>), Dict(<<<<"t", "o", "k", "e", "n", "s">>, <<"m", "o", "d", "e", "l">>>>, <<Num(15), Str(<<"m">>)>>)>>) }

\* a dict with the entries of a and of b
Union(a, b) == Dict(a.keys \o b.keys, a.items \o b.items)

ErrorMarker == Dict(<<error>>, <<Str(<<"p", "a", "r", "s", "e", " ", "f", "a", "i", "l", "u", "r", "e">>)>>)

PartnerPage ==
    Dict(<<document_type, partners, usage>>,
         <<Str(TypedCollections[4][1]), List(<<Item("A")>>), Dict(<<<<"m", "o", "d", "e", "l">>>>, <<Str(<<"n">>)>>)>>)

\* the error marker of a page without JSON, with the usage of its call
ErrorMarkerWithUsage ==
    Dict(<<error, usage>>,
         <<Str(<<"N", "o", " ", "v", "a", "l", "i", "d", " ", "J", "S", "O", "N", " ", "f", "o", "u", "n", "d", " ", "i", "n", " ", "r", "e", "s", "p", "o", "n", "s", "e">>), Dict(<<<<"t", "o", "k", "e", "n", "s">>>>, <<Num(7)>>)>>)

\* a page whose token counter did not parse as a number
TextTokensPage ==
    Dict(<<document_type, items, usage>>,
         <<Str(<<"i", "n", "v", "o", "i", "c", "e">>), List(<<Item("C")>>), Dict(<<<<"t", "o", "k", "e", "n", "s">>>>, <<Str(<<"n", "/", "a">>)>>)>>)

Pages ==
    {Union(Union(t, c), u) : t \in TypeFields, c \in CollectionFields, u \in UsageFields}
        \cup {ErrorMarker, ErrorMarkerWithUsage, PartnerPage, TextTokensPage}

PageResults == UNION {[1..n -> Pages] : n \in 0..MaxPages}

(***************************************************************************)
(* A caller merging the page results of one document                       *)
(***************************************************************************)
MergeInit ==
    /\ pc = "call_merge"
    /\ nominal = <<>>
    /\ result = <<>>
    /\ again = <<>>
    /\ raised = FALSE
    /\ original = None
    /\ data_dict = None
    /\ formatted_dict = None
    /\ formatted_again = None
    /\ results \in PageResults
    /\ merged_result = None
    /\ responses = <<>>
    /\ steps = <<>>
    /\ final_result = None

Merge ==
    /\ pc = "call_merge"
    /\ \E outcome \in {MergeOutcome(results)} :
           /\ raised' = outcome.raised
           /\ merged_result' = IF outcome.raised THEN None ELSE outcome.value
           /\ pc' = IF outcome.raised THEN "failed" ELSE "merge_returned"
    /\ UNCHANGED <<nominal, result, again, original, data_dict, formatted_dict,
                   formatted_again, results,
                   responses, steps, final_result>>

MergeNext == Merge

SpecMerge == MergeInit /\ [][MergeNext]_vars

(***************************************************************************)
(* Properties of _merge_multi_page_results                                 *)
(***************************************************************************)
\* the collection named by the first page's document type, items by default
CollectionName(pages) ==
    IF \E k \in 1..Len(TypedCollections) :
           /\ Has(pages[1], document_type)
           /\ Get(pages[1], document_type) = Str(TypedCollections[k][1])
    THEN TypedCollections[CHOOSE k \in 1..Len(TypedCollections) :
                              Get(pages[1], document_type) = Str(TypedCollections[k][1])][2]
    ELSE items

\* the list a page holds under the key, empty when it holds none
PageCollection(page, key) ==
    IF Has(page, key) /\ Get(page, key).t = "list" THEN Get(page, key).items ELSE <<>>

\* p1[key] ++ p2[key] ++ ... ++ pN[key]
RECURSIVE Concatenation(_, _)
Concatenation(pages, key) ==
    IF pages = <<>> THEN <<>>
    ELSE PageCollection(Head(pages), key) \o Concatenation(Tail(pages), key)

\* C10: the collection of the merged record (empty when the record has none)
\* is the concatenation of that collection over all pages, in page order.
C10_Concatenation ==
    (pc = "merge_returned" /\ results # <<>>) =>
        PageCollection(merged_result, CollectionName(results))
            = Concatenation(results, CollectionName(results))

\* the repeatable-collection fields
CollectionKeys == {items} \cup {TypedCollections[k][2] : k \in 1..Len(TypedCollections)}

\* the fields of the first page that the merge has no business with
BaseFields(page) ==
    {i \in 1..Len(page.keys) : page.keys[i] \notin CollectionKeys \cup {usage}}

\* C11: document_type and every field other than the collections and usage
\* are in the merged record exactly as on the first page, and the merged
\* record has no such field from a later page.
C11_FirstPageWins ==
    (pc = "merge_returned" /\ results # <<>>) =>
        /\ \A i \in BaseFields(results[1]) :
               /\ Has(merged_result, results[1].keys[i])
               /\ Get(merged_result, results[1].keys[i]) = results[1].items[i]
        /\ \A i \in BaseFields(merged_result) : Has(results[1], merged_result.keys[i])

\* two pages that disagree on document_type and vendor
C11_Witness ==
    /\ pc = "merge_returned"
    /\ Len(results) = 2
    /\ Has(results[1], document_type) /\ Has(results[2], document_type)
    /\ Get(results[1], document_type) # Get(results[2], document_type)
    /\ Has(results[1], <<"v", "e", "n", "d", "o", "r">>) /\ Has(results[2], <<"v", "e", "n", "d", "o", "r">>)
    /\ Get(results[1], <<"v", "e", "n", "d", "o", "r">>) # Get(results[2], <<"v", "e", "n", "d", "o", "r">>)
    /\ Get(merged_result, document_type) = Get(results[1], document_type)
    /\ Get(merged_result, <<"v", "e", "n", "d", "o", "r">>) = Get(results[1], <<"v", "e", "n", "d", "o", "r">>)

\* the usage mapping of a page, empty when the page has none
PageUsage(page) ==
    IF Has(page, usage) /\ Get(page, usage).t = "dict" THEN Get(page, usage) ELSE Dict(<<>>, <<>>)

\* the usage keys of all pages
UsageKeys(pages) ==
    UNION {{PageUsage(pages[p]).keys[i] : i \in 1..Len(PageUsage(pages[p]).keys)} :
               p \in 1..Len(pages)}

\* the pages whose usage holds a number under the key
NumericPages(pages, key) ==
    {p \in 1..Len(pages) : Has(PageUsage(pages[p]), key) /\ Get(PageUsage(pages[p]), key).t = "int"}

\* the pages whose usage holds the key
CarryingPages(pages, key) == {p \in 1..Len(pages) : Has(PageUsage(pages[p]), key)}

\* the sum of the numbers the pages from the p-th on hold under the key
RECURSIVE NumericSum(_, _, _)
NumericSum(pages, key, p) ==
    IF p > Len(pages) THEN 0
    ELSE (IF p \in NumericPages(pages, key) THEN Get(PageUsage(pages[p]), key).n ELSE 0)
             + NumericSum(pages, key, p + 1)

\* C12: a usage key that holds a number on at least one page holds, in the
\* merged usage, the sum of the numbers it holds on the pages; a page without
\* the key counts as 0.
C12_NumericSum ==
    (pc = "merge_returned" /\ results # <<>>) =>
        \A key \in UsageKeys(results) :
            NumericPages(results, key) # {} =>
                /\ Has(Get(merged_result, usage), key)
                /\ Get(Get(merged_result, usage), key) = Num(NumericSum(results, key, 1))

\* C13: a usage key that holds no number on any page holds, in the merged
\* usage, the value of the last page that carries it.
C13_LastTextWins ==
    (pc = "merge_returned" /\ results # <<>>) =>
        \A key \in UsageKeys(results) :
            NumericPages(results, key) = {} =>
                /\ Has(Get(merged_result, usage), key)
                /\ Get(Get(merged_result, usage), key) =
                       Get(PageUsage(results[CHOOSE p \in CarryingPages(results, key) :
                                                 \A q \in CarryingPages(results, key) : q <= p]),
                           key)

\* two pages with different text under "model": the second one's is kept
C13_Witness ==
    /\ pc = "merge_returned"
    /\ Len(results) = 2
    /\ Has(PageUsage(results[1]), <<"m", "o", "d", "e", "l">>)
    /\ Get(PageUsage(results[1]), <<"m", "o", "d", "e", "l">>) = Str(<<"m">>)
    /\ results[2] = PartnerPage
    /\ Get(Get(merged_result, usage), <<"m", "o", "d", "e", "l">>) = Str(<<"n">>)

\* a page that holds an error and no document data
IsErrorMarker(page) ==
    /\ Has(page, error)
    /\ \A i \in 1..Len(page.keys) : page.keys[i] \in {error, usage}

\* the pages that are no error markers, in page order
DataPages(pages) == SelectSeq(pages, LAMBDA page : ~IsErrorMarker(page))

\* C14: when some pages are error markers, the merged collection is the
\* concatenation over the other pages, the merged usage is the usage merged
\* from the other pages alone, and the merge raises only if it raises for the
\* other pages alone.
C14_ErrorPagesIgnored ==
    (results # <<>> /\ \E p \in 1..Len(results) : IsErrorMarker(results[p])) =>
        /\ pc = "merge_returned" =>
               /\ PageCollection(merged_result, CollectionName(results))
                      = Concatenation(DataPages(results), CollectionName(results))
               /\ Get(merged_result, usage) = TotalUsage(Dict(<<>>, <<>>), DataPages(results))
        /\ pc = "failed" => TotalUsage(Dict(<<>>, <<>>), DataPages(results)) = TypeError

\* C15: the field the merge concatenates is the one the first page's document
\* type names (items when it names none): that field holds the concatenation
\* when the first page has it, and every other collection field is left as the
\* first page has it.
C15_MappingOnly ==
    (pc = "merge_returned" /\ results # <<>>) =>
        /\ Has(results[1], CollectionName(results)) =>
               PageCollection(merged_result, CollectionName(results))
                   = Concatenation(results, CollectionName(results))
        /\ \A key \in CollectionKeys \ {CollectionName(results)} :
               /\ Has(merged_result, key) <=> Has(results[1], key)
               /\ Has(results[1], key) => Get(merged_result, key) = Get(results[1], key)

\* the record holds something under the key
Populated(record, key) == Has(record, key) /\ Truthy(Get(record, key))

\* C16: the merged record has a usage mapping, no populated collection field
\* other than the one the first page's document type names, and that one
\* populated whenever a page has entries for it.
C16_OneCollection ==
    (pc = "merge_returned" /\ results # <<>>) =>
        /\ Has(merged_result, usage)
        /\ Get(merged_result, usage).t = "dict"
        /\ \A key \in CollectionKeys \ {CollectionName(results)} : ~Populated(merged_result, key)
        /\ Concatenation(results, CollectionName(results)) # <<>>
               => Populated(merged_result, CollectionName(results))

\* C17: the merge of a non-empty sequence of records and error markers never
\* raises and returns a mapping with a usage mapping.
C17_MergeNeverRaises ==
    results # <<>> =>
        /\ raised = FALSE
        /\ pc # "failed"
        /\ pc = "merge_returned" =>
               (Has(merged_result, usage) /\ Get(merged_result, usage).t = "dict")

(***************************************************************************)
(* OCRService.extract_multimodal_responses                                 *)
(* A response stream is [text, usage_metadata]: text tells what the        *)
(* concatenated response text holds (json = "record": a {...} block that   *)
(* evaluates to the dict value; "broken": a {...} block whose evaluation   *)
(* fails with message; "none": no {...} block), usage_metadata is the      *)
(* str() of each chunk's usage metadata.                                   *)
(***************************************************************************)
\* int(value) takes an optional sign and digits
IntBody(value) ==
    IF value # <<>> /\ Head(value) \in {"+", "-"} THEN Tail(value) ELSE value

IntOK(value) == IntBody(Strip(value)) # <<>> /\ AllDigits(IntBody(Strip(value)))

IntValue(value) ==
    IF Head(Strip(value)) = "-"
    THEN 0 - DigitsToInt(DigitValues(IntBody(Strip(value))))
    ELSE DigitsToInt(DigitValues(IntBody(Strip(value))))

\* lines 121-124: int(value), the text itself on ValueError
UsageValue(value) == IF IntOK(value) THEN Num(IntValue(value)) ELSE Str(value)

\* lines 118-124: one line of str(response.usage_metadata)
UsageLine(total, line) ==
    IF Strip(line) # <<>> /\ Find(line, ":") > 0
    THEN Put(total,
             Strip(SubSeq(line, 1, Find(line, ":") - 1)),
             UsageValue(Strip(SubSeq(line, Find(line, ":") + 1, Len(line)))))
    ELSE total

\* line 117: the lines of one chunk, in order
RECURSIVE UsageLines(_, _)
UsageLines(total, lines) ==
    IF lines = <<>> THEN total
    ELSE UsageLines(UsageLine(total, Head(lines)), Tail(lines))

\* lines 112-124: the chunks of the stream, in order
RECURSIVE UsageOfChunks(_, _)
UsageOfChunks(total, chunks) ==
    IF chunks = <<>> THEN total
    ELSE UsageOfChunks(UsageLines(total, Split(Head(chunks), "\n")), Tail(chunks))

\* lines 128-137: the evaluated block, or an error marker
ExtractedRecord(text) ==
    IF text.json = "record" THEN text.value
    ELSE IF text.json = "broken"
    THEN Dict(<<error>>, <<Str(<<"F", "a", "i", "l", "e", "d", " ", "t", "o", " ", "p", "a", "r", "s", "e", " ", "J", "S", "O", "N", " ", "r", "e", "s", "p", "o", "n", "s", "e", ":", " ">> \o text.message)>>)
    ELSE Dict(<<error>>, <<Str(<<"N", "o", " ", "v", "a", "l", "i", "d", " ", "J", "S", "O", "N", " ", "f", "o", "u", "n", "d", " ", "i", "n", " ", "r", "e", "s", "p", "o", "n", "s", "e">>)>>)

\* variant of ExtractOutcome that raises when the text holds no usable block
ExtractOutcome_RaisesWithoutJson(response) ==
    IF response.text.json = "record"
    THEN Return(Put(response.text.value, usage,
                    UsageOfChunks(Dict(<<>>, <<>>), response.usage_metadata)))
    ELSE Raise

\* lines 98-141: result.update({'usage': usage})
ExtractOutcome(response) ==
    Return(Put(ExtractedRecord(response.text), usage,
               UsageOfChunks(Dict(<<>>, <<>>), response.usage_metadata)))

extract_multimodal_responses(response) == ExtractOutcome(response).value

(***************************************************************************)
(* OCRService.process_multiple_images, lines 687-749; the image path of    *)
(* process_document_from_pdf, lines 544-588, takes the same steps.  The    *)
(* variables results, merged_result, formatted_dict and final_result hold  *)
(* all_results and the value of result after each step.                    *)
(***************************************************************************)
processing_time_ms == <<"p", "r", "o", "c", "e", "s", "s", "i", "n", "g", "_", "t", "i", "m", "e", "_", "m", "s">>

metadata == <<"m", "e", "t", "a", "d", "a", "t", "a">>

\* lines 704-729: the loop goes on until every page has been extracted
AfterExtract_Early(done, total) == "merge"

AfterExtract(done, total) == IF done < total THEN "extract" ELSE "merge"

\* Timer.calculate_processing_time(start_time), a number of the clock
Elapsed == {1, 25}

\* what an image reader or the model call may raise
CollaboratorErrors == {<<"c", "a", "n", "n", "o", "t", " ", "i", "d", "e", "n", "t", "i", "f", "y", " ", "i", "m", "a", "g", "e", " ", "f", "i", "l", "e">>}

\* str(e) of what _merge_multi_page_results raises
MergeErrorText(pages) ==
    IF ExtendRaises(pages, MergeKey(pages[1]))
    THEN <<"'", "i", "n", "t", "'", " ", "o", "b", "j", "e", "c", "t", " ", "i", "s", " ", "n", "o", "t", " ", "i", "t", "e", "r", "a", "b", "l", "e">>
    ELSE <<"c", "a", "n", " ", "o", "n", "l", "y", " ", "c", "o", "n", "c", "a", "t", "e", "n", "a", "t", "e", " ", "s", "t", "r", " ", "(", "n", "o", "t", " ", "\"", "i", "n", "t", "\"", ")", " ", "t", "o", " ", "s", "t", "r">>

\* variant of Caught that hands back the record built so far
Caught_Partial(step, message) ==
    /\ final_result' = IF merged_result = None THEN Dict(<<>>, <<>>) ELSE merged_result
    /\ steps' = Append(steps, step)
    /\ pc' = "pipeline_failed"

\* lines 751-756: except Exception as e
Caught(step, message) ==
    /\ \E t \in Elapsed :
           final_result' = Dict(<<error, processing_time_ms>>,
                                <<Str(<<"F", "a", "i", "l", "e", "d", " ", "t", "o", " ", "p", "r", "o", "c", "e", "s", "s", " ", "m", "u", "l", "t", "i", "p", "l", "e", " ", "i", "m", "a", "g", "e", "s", ":", " ">> \o message), Num(t)>>)
    /\ steps' = Append(steps, step)
    /\ pc' = "pipeline_failed"

\* lines 166-174 of add_metadata_result, for a caller that passes no metadata
MetadataOf(now, model) ==
    Dict(<<<<"c", "o", "m", "p", "a", "n", "y", "_", "i", "d">>, <<"c", "l", "i", "e", "n", "t", "_", "i", "p">>, <<"f", "i", "l", "e", "_", "u", "r", "l">>, <<"p", "r", "o", "c", "e", "s", "s", "e", "d", "_", "o", "c", "r", "_", "d", "a", "t", "e">>, <<"f", "i", "n", "i", "s", "h", "e", "d", "_", "o", "c", "r", "_", "d", "a", "t", "e">>, <<"e", "n", "d", "p", "o", "i", "n", "t">>, <<"m", "o", "d", "e", "l">>>>,
         <<None, None, None, Str(now), Str(now), None, Str(model)>>)

\* lines 708-725: reading an image or calling the model raises
CollaboratorFails ==
    /\ pc = "extract"
    /\ \E message \in CollaboratorErrors : Caught("collaborator_raised", message)
    /\ UNCHANGED <<nominal, result, again, raised, original, data_dict, formatted_dict,
                   formatted_again, results, merged_result, responses>>

\* lines 704-729: one turn of the loop
ExtractPage ==
    /\ pc = "extract"
    /\ Len(results) < Len(responses)
    /\ \E outcome \in {ExtractOutcome(responses[Len(results) + 1])} :
           IF outcome.raised
           THEN Caught("extract_raised", <<>>) /\ UNCHANGED results
           ELSE /\ results' = Append(results, outcome.value)
                /\ steps' = Append(steps, "extract")
                /\ pc' = AfterExtract(Len(results) + 1, Len(responses))
                /\ UNCHANGED final_result
    /\ UNCHANGED <<nominal, result, again, raised, original, data_dict, formatted_dict,
                   formatted_again, merged_result, responses>>

\* line 732
MergePages ==
    /\ pc = "merge"
    /\ \E outcome \in {MergeOutcome(results)} :
           IF outcome.raised
           THEN Caught("merge_raised", MergeErrorText(results)) /\ UNCHANGED merged_result
           ELSE /\ merged_result' = outcome.value
                /\ steps' = Append(steps, "merge")
                /\ pc' = "normalize"
                /\ UNCHANGED final_result
    /\ UNCHANGED <<nominal, result, again, raised, original, data_dict, formatted_dict,
                   formatted_again, results, responses>>

\* lines 619-622 with lines 160-170 of nominal_formatter.py: extend() puts the
\* pages' own elements into the merged collection, the first page's included
\* (the loop reads results, not the copy), and process_item writes into them
SharedPage(page, key) ==
    IF key # NoKey /\ Contributes(page, key) /\ Get(page, key).t = "list"
    THEN Put(page, key, SharedList(Get(page, key)))
    ELSE page

\* what all_results holds once the merged record has been normalized
PagesAfterNormalize(pages) ==
    IF pages = <<>> THEN pages
    ELSE [i \in 1..Len(pages) |-> SharedPage(pages[i], MergeKey(pages[1]))]

\* line 735
NormalizeMerged ==
    /\ pc = "normalize"
    /\ \E outcome \in {FormatAllOutcome(merged_result)} :
           IF outcome.raised
           THEN Caught("normalize_raised", <<>>) /\ UNCHANGED formatted_dict
           ELSE /\ formatted_dict' = outcome.value
                /\ steps' = Append(steps, "normalize")
                /\ pc' = "attach_time"
                /\ UNCHANGED final_result
    /\ merged_result' = CallerView(merged_result)
    /\ results' = PagesAfterNormalize(results)
    /\ UNCHANGED <<nominal, result, again, raised, original, data_dict,
                   formatted_again, responses>>

\* lines 738-739
AttachTime ==
    /\ pc = "attach_time"
    /\ \E t \in Elapsed : final_result' = Put(formatted_dict, processing_time_ms, Num(t))
    /\ steps' = Append(steps, "attach_time")
    /\ pc' = "attach_metadata"
    /\ UNCHANGED <<nominal, result, again, raised, original, data_dict, formatted_dict,
                   formatted_again, results, merged_result, responses>>

\* lines 742-749
AttachMetadata ==
    /\ pc = "attach_metadata"
    /\ final_result' = Put(final_result, metadata, MetadataOf(<<"n", "o", "w">>, <<"m">>))
    /\ steps' = Append(steps, "attach_metadata")
    /\ pc' = "pipeline_returned"
    /\ UNCHANGED <<nominal, result, again, raised, original, data_dict, formatted_dict,
                   formatted_again, results, merged_result, responses>>

(***************************************************************************)
(* Inputs of process_multiple_images                                       *)
(***************************************************************************)
Text(json, value, message) == [json |-> json, value |-> value, message |-> message]

Response(text, chunks) == [text |-> text, usage_metadata |-> chunks]

Entry(amount) == Dict(<<<<"a", "m", "o", "u", "n", "t">>>>, <<Str(amount)>>)

\* two entries of a sales invoice, amounts in comma-decimal notation
FirstPage ==
    Response(Text("record",
                  Dict(<<document_type, sales_invoices>>,
                       <<Str(TypedCollections[1][1]),
                         List(<<Entry(<<"1", "0", ".", "0", "0", "0", ",", "5", "0">>), Entry(<<"1", ".", "2", "3", "4", ",", "5", "6">>)>>)>>),
                  <<>>),
             <<<<"t", "o", "k", "e", "n", "s", ":", " ", "1", "0", "\n", "m", "o", "d", "e", "l", ":", " ", "m", "\n">>>>)

\* one more entry; the stream reports its usage twice
SecondPage ==
    Response(Text("record",
                  Dict(<<document_type, sales_invoices>>,
                       <<Str(TypedCollections[1][1]), List(<<Entry(<<"5", ",", "2", "5">>)>>)>>),
                  <<>>),
             <<<<"t", "o", "k", "e", "n", "s", ":", " ", "5">>, <<"t", "o", "k", "e", "n", "s", ":", " ", "1", "5", "\n">>>>)

\* a page of a sales invoice without entries
CoverPage ==
    Response(Text("record", Dict(<<document_type>>, <<Str(TypedCollections[1][1])>>), <<>>),
             <<<<"t", "o", "k", "e", "n", "s", ":", " ", "3">>>>)

\* a generic invoice whose record brings a usage of its own
InvoicePage ==
    Response(Text("record",
                  Dict(<<document_type, usage, items>>,
                       <<Str(<<"i", "n", "v", "o", "i", "c", "e">>), Num(1), List(<<Dict(<<<<"p", "r", "i", "c", "e">>>>, <<Str(<<"1", "0", ",", "0", "0">>)>>)>>)>>),
                  <<>>),
             <<<<"t", "o", "k", "e", "n", "s", ":", " ", "1", "0", "\n", "m", "o", "d", "e", "l", ":", " ", "m", "\n">>>>)

NoJsonPage == Response(Text("none", None, <<>>), <<<<"t", "o", "k", "e", "n", "s", ":", " ", "7">>>>)

BrokenJsonPage == Response(Text("broken", None, <<"n", "a", "m", "e", " ", "'", "x", "'", " ", "i", "s", " ", "n", "o", "t", " ", "d", "e", "f", "i", "n", "e", "d">>), <<<<"t", "o", "k", "e", "n", "s", ":", " ", "n", "/", "a">>>>)

PageStreams ==
    {FirstPage, SecondPage, CoverPage, InvoicePage, NoJsonPage, BrokenJsonPage}

Documents == UNION {[1..n -> PageStreams] : n \in 0..MaxPages}

(***************************************************************************)
(* One document going through process_multiple_images.  A document of no   *)
(* pages is the call with an empty list and a document type.               *)
(***************************************************************************)
PipelineInit ==
    /\ responses \in Documents
    /\ pc = AfterExtract(0, Len(responses))
    /\ nominal = <<>>
    /\ result = <<>>
    /\ again = <<>>
    /\ raised = FALSE
    /\ original = None
    /\ data_dict = None
    /\ formatted_dict = None
    /\ formatted_again = None
    /\ results = <<>>
    /\ merged_result = None
    /\ steps = <<>>
    /\ final_result = None

PipelineNext ==
    \/ CollaboratorFails
    \/ ExtractPage
    \/ MergePages
    \/ NormalizeMerged
    \/ AttachTime
    \/ AttachMetadata

SpecPipeline == PipelineInit /\ [][PipelineNext]_vars

(***************************************************************************)
(* Properties of process_multiple_images                                   *)
(***************************************************************************)
\* the step has been completed
Done(step) == \E i \in 1..Len(steps) : steps[i] = step

\* C18: for a document of several pages whose first page is a sales_invoice,
\* after merge and normalization the sales_invoices collection has as many
\* entries as all pages together, each with its amount in canonical form.
C18_EndToEnd ==
    ( /\ Done("normalize")
      /\ Len(results) >= 2
      /\ Has(results[1], document_type)
      /\ Get(results[1], document_type) = Str(TypedCollections[1][1]) ) =>
        /\ Len(PageCollection(formatted_dict, sales_invoices))
               = Len(Concatenation(results, sales_invoices))
        /\ \A i \in 1..Len(PageCollection(formatted_dict, sales_invoices)) :
               /\ Has(PageCollection(formatted_dict, sales_invoices)[i], <<"a", "m", "o", "u", "n", "t">>)
               /\ IsCanonical(Get(PageCollection(formatted_dict, sales_invoices)[i], <<"a", "m", "o", "u", "n", "t">>).s)

\* the steps of a run over n pages
ExpectedSteps(n) ==
    [i \in 1..n |-> "extract"] \o <<"merge", "normalize", "attach_time", "attach_metadata">>

\* the steps completed, without the mark of the exception that ended the run
Completed == IF pc = "pipeline_failed" THEN SubSeq(steps, 1, Len(steps) - 1) ELSE steps

\* C19: the steps of a run are, in this order and once each, the extraction of
\* every page, the merge, the normalization, processing_time_ms and metadata;
\* a run that returns has taken them all, and the merge has every page.
C19_StepOrder ==
    /\ Len(Completed) <= Len(ExpectedSteps(Len(responses)))
    /\ Completed = SubSeq(ExpectedSteps(Len(responses)), 1, Len(Completed))
    /\ pc = "pipeline_returned" => steps = ExpectedSteps(Len(responses))
    /\ Done("merge") => Len(results) = Len(responses)
    /\ Done("normalize") => formatted_dict = format_all_nominal_fields(_merge_multi_page_results(results))
    /\ Done("attach_metadata") =>
           (Has(final_result, processing_time_ms) /\ Has(final_result, metadata))

C19_Witness ==
    /\ pc = "pipeline_returned"
    /\ Len(responses) = 2
    /\ steps = <<"extract", "extract", "merge", "normalize", "attach_time", "attach_metadata">>

\* C20: a page whose text holds no block, or a block that does not evaluate,
\* is extracted without an exception into a record of an error and the usage;
\* that record is among the page results, and the merge is called with the
\* results of all pages.
C20_ErrorMarkerFed ==
    /\ ~Done("extract_raised")
    /\ \A i \in 1..Len(results) :
           responses[i].text.json # "record" =>
               (IsErrorMarker(results[i]) /\ Get(results[i], error).t = "str")
    /\ (Done("merge") \/ Done("merge_raised")) => Len(results) = Len(responses)

\* a page without JSON comes first and the page after it is still extracted
C20_Witness ==
    /\ pc = "pipeline_returned"
    /\ responses = <<NoJsonPage, FirstPage>>
    /\ Len(results) = 2
    /\ IsErrorMarker(results[1])
    /\ results[2] = extract_multimodal_responses(FirstPage)

(***************************************************************************)
(* Properties of the sign, the scientific notation and the separators      *)
(***************************************************************************)
\* the cleaned input is one minus sign followed by text without a minus sign
\* that holds a digit
SingleLeadingMinus(text) ==
    /\ Clean(text) # <<>>
    /\ Head(Clean(text)) = "-"
    /\ Count(Clean(text), "-") = 1
    /\ ~NoDigit(Clean(text))

\* the cleaned input holds a minus sign that is not its first character
MinusNotLeading(text) ==
    \E i \in 1..Len(Clean(text)) :
        Clean(text)[i] = "-" /\ (i > 1 \/ Head(Clean(text)) # "-")

IsNegativeResult(s) == s # <<>> /\ Head(s) = "-"

C22_ScientificDirect ==
    (pc = "format_nominal_returned" /\ LooksScientific(nominal)) =>
        /\ ParseFloat(nominal).ok =>
               (IsCanonical(result) /\ result = FormatGrouped(ParseFloat(nominal)))
        /\ ~ParseFloat(nominal).ok => result = SeparatorPath(nominal).value
        /\ nominal = <<"1", ".", "5", "e", "3">> => result = <<"1", ",", "5", "0", "0", ".", "0", "0">>

\* the input holds both separators and matches neither pattern of lines 58-61
BothUndecided(text) ==
    /\ Count(text, ".") > 0
    /\ Count(text, ",") > 0
    /\ ~GroupedThenDecimal(text, ",", ".")
    /\ ~GroupedThenDecimal(text, ".", ",")

\* position of the last separator of either kind
LastSeparator(s) == Max(RFind(s, "."), RFind(s, ","))

\* s with that separator as the decimal point and every separator before it removed
DecimalAt(s, p) ==
    SelectSeq(SubSeq(s, 1, p - 1), LAMBDA c : c \notin {".", ","})
        \o <<".">> \o SubSeq(s, p + 1, Len(s))

\* the rendering of the number that text s denotes, negated if asked
Rendering(s, negative) == FormatParsed(ParseFloat(s), negative).value

\* C23: when the input holds both separators and neither pattern matches, the
\* separator that occurs last in the cleaned text is the decimal point and
\* every occurrence of the other one is removed.
C23_LastSeparatorDecides ==
    (pc = "format_nominal_returned" /\ BothUndecided(nominal)) =>
        /\ nominal = <<"1", ",", "2", "3", ".", "4", "5">> => result = <<"1", "2", "3", ".", "4", "5">>
        /\ result = Rendering(DecimalAt(Unsigned(Clean(nominal)),
                                        LastSeparator(Unsigned(Clean(nominal)))),
                              IsNegative(nominal))

C23_Witness ==
    /\ pc = "format_nominal_returned"
    /\ nominal = <<"1", "2", ".", "3", "4", ",", "5">>
    /\ BothUndecided(nominal)
    /\ result = <<"1", ",", "2", "3", "4", ".", "5", "0">>

\* the separator of the cleaned text when it holds one kind only, else ""
OnlySeparator(c) ==
    IF Count(c, ".") > 0 /\ Count(c, ",") = 0 THEN "."
    ELSE IF Count(c, ",") > 0 /\ Count(c, ".") = 0 THEN ","
    ELSE ""

\* c read by the rule of C24: its separator is a thousands separator when
\* exactly three digits follow its last occurrence, the decimal point otherwise
BySingleSeparator(c, sep) ==
    IF DigitRun(c, RFind(c, sep) + 1) = 3 /\ RFind(c, sep) + 3 = Len(c)
    THEN Remove(c, sep)
    ELSE DecimalAt(c, RFind(c, sep))

\* C24: when one kind of separator appears, it is the decimal separator unless
\* exactly three digits follow its last occurrence, and then all its
\* occurrences are thousands separators.
C24_SingleSeparator ==
    ( /\ pc = "format_nominal_returned"
      /\ ~ScientificAttempt(nominal).ok
      /\ OnlySeparator(Unsigned(Clean(nominal))) # "" ) =>
        result = Rendering(BySingleSeparator(Unsigned(Clean(nominal)),
                                             OnlySeparator(Unsigned(Clean(nominal)))),
                           IsNegative(nominal))

\* the decimal separator chosen by lines 54-90 for the input
Chosen(text) ==
    IF DecimalSeparator(text, Unsigned(Clean(text))).comma THEN "," ELSE "."

\* the decimal separator occurs more than once in the cleaned input
RepeatedDecimal(text) == Count(Clean(text), Chosen(text)) > 1

\* c with the last occurrence of dec as the decimal point and no other separator
LastAsDecimal(c, dec) ==
    SelectSeq(SubSeq(c, 1, RFind(c, dec) - 1), LAMBDA x : x \notin {".", ","})
        \o <<".">>
        \o SelectSeq(SubSeq(c, RFind(c, dec) + 1, Len(c)), LAMBDA x : x \notin {".", ","})

\* C25: when the chosen decimal separator occurs more than once, only its last
\* occurrence is kept, as the decimal point, and the digits of the input stay
\* in their order.
C25_LastDecimalKept ==
    (pc = "format_nominal_returned" /\ RepeatedDecimal(nominal)) =>
        /\ nominal = <<"1", ".", "2", "3", "4", ".", "5", "6">> => result = <<"1", ",", "2", "3", "4", ".", "5", "6">>
        /\ SelectSeq(LastAsDecimal(Unsigned(Clean(nominal)), Chosen(nominal)), IsDigit)
               = SelectSeq(nominal, IsDigit)
        /\ result = Rendering(LastAsDecimal(Unsigned(Clean(nominal)), Chosen(nominal)),
                              IsNegative(nominal))

C25_Witness ==
    /\ pc = "format_nominal_returned"
    /\ nominal = <<"1", ".", "2", ".", "3">>
    /\ RepeatedDecimal(nominal)
    /\ result = <<"1", "2", ".", "3", "0">>

(***************************************************************************)
(* Further properties of _merge_multi_page_results                         *)
(***************************************************************************)
\* C26: called with an empty sequence the merge does not raise and returns
\* exactly the record {"error": "No results to merge"}.
C26_EmptyMerge ==
    (pc # "call_merge" /\ results = <<>>) =>
        /\ ~raised
        /\ pc = "merge_returned"
        /\ merged_result = Dict(<<error>>, <<Str(<<"N", "o", " ", "r", "e", "s", "u", "l", "t", "s", " ", "t", "o", " ", "m", "e", "r", "g", "e">>)>>)
        /\ ~Has(merged_result, usage)

C26_Witness ==
    /\ pc = "merge_returned"
    /\ results = <<>>
    /\ merged_result.keys = <<error>>
    /\ Get(merged_result, error) = Str(<<"N", "o", " ", "r", "e", "s", "u", "l", "t", "s", " ", "t", "o", " ", "m", "e", "r", "g", "e">>)

(***************************************************************************)
(* Further properties of process_multiple_images                           *)
(***************************************************************************)
\* the steps at which an exception ends the run
FailureSteps == {"collaborator_raised", "extract_raised", "merge_raised", "normalize_raised"}

\* the record of lines 753-756: an error text and the elapsed time, nothing else
IsFailureRecord(record) ==
    /\ record.t = "dict"
    /\ record.keys = <<error, processing_time_ms>>
    /\ Get(record, error).t = "str"
    /\ SubSeq(Get(record, error).s, 1, Len(<<"F", "a", "i", "l", "e", "d", " ", "t", "o", " ", "p", "r", "o", "c", "e", "s", "s", " ", "m", "u", "l", "t", "i", "p", "l", "e", " ", "i", "m", "a", "g", "e", "s", ":", " ">>)) = <<"F", "a", "i", "l", "e", "d", " ", "t", "o", " ", "p", "r", "o", "c", "e", "s", "s", " ", "m", "u", "l", "t", "i", "p", "l", "e", " ", "i", "m", "a", "g", "e", "s", ":", " ">>
    /\ Get(record, processing_time_ms).t = "int"

\* C27: no exception of a step reaches the caller; a step that raises ends
\* the run at once with a record that holds an error text and
\* processing_time_ms only, and a run without such a step returns the record
\* with processing_time_ms and metadata.
C27_FailuresReturned ==
    /\ ~raised
    /\ pc # "failed"
    /\ (\E i \in 1..Len(steps) : steps[i] \in FailureSteps) =>
           /\ pc = "pipeline_failed"
           /\ steps[Len(steps)] \in FailureSteps
           /\ \A i \in 1..(Len(steps) - 1) : steps[i] \notin FailureSteps
           /\ IsFailureRecord(final_result)
    /\ pc = "pipeline_failed" => (steps # <<>> /\ steps[Len(steps)] \in FailureSteps)
    /\ pc = "pipeline_returned" =>
           (Has(final_result, processing_time_ms) /\ Has(final_result, metadata))

\* the merge raises after both pages were extracted
C27_Witness ==
    /\ pc = "pipeline_failed"
    /\ Len(results) = 2
    /\ Done("merge_raised")
    /\ IsFailureRecord(final_result)

(***************************************************************************)
(* Frame properties                                                        *)
(***************************************************************************)
\* C29: after format_all_nominal_fields the caller's argument holds, at the
\* top level and in every nested mapping and list, the values it held before
\* the call.
C29_ArgumentUntouched ==
    pc \in {"format_all_returned", "format_all_returned_again"} => data_dict = original

\* the page results as the extraction returned them
ExtractedPages == [i \in 1..Len(results) |-> extract_multimodal_responses(responses[i])]

\* C28: after the merge and the normalization of the merged record every
\* page result, its item sub-records included, still holds the values it had
\* when it was passed to the merge.
C28_PagesUntouched ==
    (Done("merge") \/ Done("merge_raised")) => results = ExtractedPages

\* the date and identifier fields of the invoice schema
InvoiceDateFields == {<<"i", "n", "v", "o", "i", "c", "e", "_", "d", "a", "t", "e">>, <<"i", "n", "v", "o", "i", "c", "e", "_", "d", "u", "e", "_", "d", "a", "t", "e">>}

InvoiceIdentifierFields == {<<"i", "n", "v", "o", "i", "c", "e", "_", "n", "u", "m", "b", "e", "r">>, <<"p", "u", "r", "c", "h", "a", "s", "e", "_", "o", "r", "d", "e", "r", "_", "n", "u", "m", "b", "e", "r">>}

\* C30: applied to a record in the invoice schema, format_all_nominal_fields
\* leaves the date fields invoice_date and invoice_due_date and the identifier
\* fields invoice_number and purchase_order_number at their original values.
C30_DatesAndIdentifiersKept ==
    (pc = "format_all_returned" /\ original \in InvoiceRecords) =>
        \A key \in InvoiceDateFields \cup InvoiceIdentifierFields :
            Get(formatted_dict, key) = Get(original, key)

====
